---- MODULE Spec2Model ----
(***************************************************************************)
(* Model of package bytepool (SermoDigital/golibs): the size-class pool    *)
(* of bytepool.go and the Buffer of buffer.go.                             *)
(*                                                                         *)
(* Buffers are objects with an identity and the fields the pool reads and  *)
(* writes: cap(Buf), len(Buf) and off.  Callers and the maintenance        *)
(* goroutine are processes.  One action is one access to shared state with *)
(* the local computation that follows it; p.list is only ever accessed     *)
(* between p.mu.Lock() and p.mu.Unlock(), and tp.maxSize is only written   *)
(* between tp.Lock() and tp.Unlock(), so each of these critical sections   *)
(* is one action.                                                          *)
(***************************************************************************)
EXTENDS Integers, Sequences, FiniteSets, TLC

\* ------------------------------------------------------------------------
\* Bounds of the model.
\* ------------------------------------------------------------------------
\* Largest capacity a buffer may have (Write and NewBuffer are cut there).
MaxCap == 3
\* Largest maxSize argument given to Init.
MaxHint == 3
\* Number of calls (of the pool's methods and of the Buffer's) and of ticks
\* in one run; a Put of a buffer the caller made itself is one call.
MaxCalls == 3
\* Largest capacity of the Buffer of the runs that exercise Buffer by its
\* bytes, the bootstrap array apart.
MaxBufCap == 6
\* Number of calls in a run of a lone caller that repeats Get, Write, Put.
MaxSoloCalls == 6

\* The calling goroutines and the maintenance goroutine of Init.
Callers == {"c1", "c2"}
\* The goroutines that write and drain the buffers they hold, and the ones
\* that call Drain, Close and UpdateMaxSize.
Writers == {"c1"}
Admins == {"c2"}
\* The arguments given to UpdateMaxSize.
NewMaxSizes == {0, MaxCap}
Maint == "maint"
Procs == Callers \cup {Maint}
\* Identities of the Buffer objects that can be alive at once.
BufIds == {"b1", "b2", "b3"}
\* Standard deviations the estimator may report.
StdDevs == {0, 2}

None == "none"
NoBuf == [cap |-> -1, len |-> -1, off |-> -1]

\* ------------------------------------------------------------------------
\* uint32 arithmetic.  A value below 2^31 is an integer; the 32-bit product of
\* log2Floor is kept as two 16-bit halves <<hi, lo>>, so that no intermediate
\* value leaves the range of the integers of the checker.
\* ------------------------------------------------------------------------
Half == 65536

\* a | b
RECURSIVE BitOr(_, _)
BitOr(a, b) ==
    IF a = 0 THEN b
    ELSE IF b = 0 THEN a
    ELSE (IF a % 2 = 1 \/ b % 2 = 1 THEN 1 ELSE 0) + 2 * BitOr(a \div 2, b \div 2)

\* a & b
RECURSIVE BitAnd(_, _)
BitAnd(a, b) ==
    IF a = 0 \/ b = 0 THEN 0
    ELSE (IF a % 2 = 1 /\ b % 2 = 1 THEN 1 ELSE 0) + 2 * BitAnd(a \div 2, b \div 2)

\* a >> k
RECURSIVE ShiftRight(_, _)
ShiftRight(a, k) == IF k = 0 THEN a ELSE ShiftRight(a \div 2, k - 1)

\* x + y modulo 2^32, on halves
WordAdd(x, y) ==
    LET lo == x[2] + y[2]
    IN  << (x[1] + y[1] + lo \div Half) % Half, lo % Half >>

\* x << 1 modulo 2^32, on halves
WordDouble(x) == WordAdd(x, x)

\* uint32(x * c): shift and add over the bits of c
RECURSIVE WordMul(_, _)
WordMul(x, c) ==
    IF c = 0 THEN << 0, 0 >>
    ELSE IF c % 2 = 1 THEN WordAdd(x, WordMul(WordDouble(x), c \div 2))
    ELSE WordMul(WordDouble(x), c \div 2)

\* 0x07C4ACDD
DeBruijnMul == 130329821

multiplyDeBruijnBitPosition ==
    << 0, 9, 1, 10, 13, 21, 2, 29, 11, 14, 16, 18, 22, 25, 3, 30,
       8, 12, 20, 28, 15, 17, 24, 7, 19, 27, 23, 6, 26, 5, 4, 31 >>

\* v |= v >> k
Smear(v, k) == BitOr(v, ShiftRight(v, k))

\* log2Floor(v uint32) uint, for v < 2^31
log2FloorOf(n) ==
    LET v == Smear(Smear(Smear(Smear(Smear(n, 1), 2), 4), 8), 16)
        prod == WordMul(<< v \div Half, v % Half >>, DeBruijnMul)
    IN  \* uint32(v*0x07C4ACDD)>>27 is the upper half >> 11
        multiplyDeBruijnBitPosition[ShiftRight(prod[1], 11) + 1]

\* log2Ceil(v uint32) uint, for v < 2^31.  For v = 0 the code's v-1 wraps to
\* 0xFFFFFFFF and v & (v-1) is 0.
log2CeilOf(n) ==
    LET isNotPowerOfTwo == IF n = 0 \/ BitAnd(n, n - 1) = 0 THEN 0 ELSE 1
    IN  log2FloorOf(n) + isNotPowerOfTwo

\* the two functions on the arguments the model gives them, computed once
Log2Args == 0..(2 * MaxCap + 4)
log2FloorTable == [n \in Log2Args |-> log2FloorOf(n)]
log2CeilTable == [n \in Log2Args |-> log2CeilOf(n)]
log2Floor(n) == log2FloorTable[n]
log2Ceil(n) == log2CeilTable[n]

\* ------------------------------------------------------------------------
\* Go's int(x) of a quotient: truncation toward zero.
\* ------------------------------------------------------------------------
TruncDiv(a, b) == IF a >= 0 THEN a \div b ELSE -((-a) \div b)

Min(a, b) == IF a <= b THEN a ELSE b
Max(a, b) == IF a >= b THEN a ELSE b

\* ------------------------------------------------------------------------
\* The usage estimator (package ewma).  Current and StdDev are kept at
\* integer resolution.
\* ------------------------------------------------------------------------
\* stdOff = 1.5 = stdOffNum / stdOffDen
stdOffNum == 3
stdOffDen == 2

\* ewma.NewEwma
NewEwma == [Current |-> 0, StdDev |-> 0]

\* avg.UpdateNow(v): the mean moves toward the sample v by a weight that
\* depends on the time since the last sample; the deviation is re-estimated.
UpdateNow(a, v) ==
    { [Current |-> c, StdDev |-> d] :
        c \in Min(a.Current, v)..Max(a.Current, v), d \in StdDevs }

\* int(avg.Current - (stdOff*avg.StdDev))
LowerBound(a) == TruncDiv(stdOffDen * a.Current - stdOffNum * a.StdDev, stdOffDen)
\* int(avg.Current + stdOff*avg.StdDev)
UpperBound(a) == TruncDiv(stdOffDen * a.Current + stdOffNum * a.StdDev, stdOffDen)

\* ------------------------------------------------------------------------
\* Buffer (buffer.go).  A buffer value is [cap, len, off]: cap(Buf), len(Buf)
\* and off.  The bytes are not part of this model: the pool never reads them.
\* ------------------------------------------------------------------------
\* NewBuffer(size): Buf = make([]byte, size)
NewBuffer(size) == [cap |-> size, len |-> size, off |-> 0]

\* b.Len()
BufLen(b) == b.len - b.off

\* b.Truncate(n), for 0 <= n <= len(b.Buf)
Truncate(b, n) ==
    LET off1 == IF n = 0 THEN 0 ELSE b.off
    IN  [b EXCEPT !.off = off1, !.len = off1 + n]

\* b.Reset()
Reset(b) == Truncate(b, 0)

\* b.grow(n), for a buffer whose Buf is not nil; the value returned by grow
\* is the len of the result minus n
grow(b, n) ==
    LET m  == BufLen(b)
        b1 == IF m = 0 /\ b.off # 0 THEN Truncate(b, 0) ELSE b
        b2 == IF b1.len + n > b1.cap
              THEN IF m + n <= b1.cap \div 2
                   THEN [b1 EXCEPT !.len = m, !.off = 0]
                   ELSE [b1 EXCEPT !.cap = 2 * b1.cap + n,
                                   !.len = 2 * b1.cap + n, !.off = 0]
              ELSE b1
    IN  [b2 EXCEPT !.len = b2.off + m + n]

\* b.Write(p) with len(p) = n
Write(b, n) == grow(b, n)

\* b.WriteTo(w) with a sink that accepts m bytes, 0 <= m <= b.Len()
WriteTo(b, m) == IF b.off < b.len THEN [b EXCEPT !.off = b.off + m] ELSE b

\* ------------------------------------------------------------------------
\* Buffer with its bytes.  A buffer value is [nil, arr, len, off]: whether Buf
\* is nil, the backing array of Buf (cap(Buf) = Len(arr)), len(Buf) and off.
\* A byte is a natural number; 0 is the byte of fresh memory.
\* ------------------------------------------------------------------------
\* len(b.bootstrap)
BootstrapLen == 64

Zeros(n) == [i \in 1..n |-> 0]
\* the zero value of Buffer (var b Buffer)
ZeroBuffer == [nil |-> TRUE, arr |-> << >>, len |-> 0, off |-> 0]
\* NewBuffer(size) with the bytes
NewBufferBytes(size) == [nil |-> FALSE, arr |-> Zeros(size), len |-> size, off |-> 0]

BufCap(b) == Len(b.arr)
\* b.Buf[b.off:], the valid bytes
Content(b) == SubSeq(b.arr, b.off + 1, b.len)

\* copy(dst[at:stop], src) on the array dst
Copy(dst, at, stop, src) ==
    [i \in 1..Len(dst) |->
        IF i > at /\ i <= stop /\ i - at <= Len(src) THEN src[i - at] ELSE dst[i]]

\* a Truncate that compares n with Len(), as bytes.Buffer does
TruncateRejects_Mutant(b, n) == n < 0 \/ n > b.len - b.off

\* the switch of Truncate: which n it rejects with its own panic
TruncateRejects(b, n) == n < 0 \/ n > b.len

\* b.Truncate(n): the buffer afterwards and how the call ended ("nil", the
\* panic of line 55, or the run-time panic of the slice expression of line 59)
TruncateBytes(b, n) ==
    IF TruncateRejects(b, n)
    THEN [b |-> b, err |-> "truncation out of range"]
    ELSE LET off1 == IF n = 0 THEN 0 ELSE b.off
         IN  IF off1 + n > BufCap(b)
             THEN [b |-> b, err |-> "slice bounds out of range"]
             ELSE [b |-> [b EXCEPT !.off = off1, !.len = off1 + n], err |-> "nil"]

\* the test of grow for sliding the content down instead of allocating
GrowSlides(m, n, c) == m + n <= c \div 2

\* b.grow(n): the buffer afterwards and the index grow returns
growBytes(b, n) ==
    LET m  == BufLen(b)
        b1 == IF m = 0 /\ b.off # 0 THEN TruncateBytes(b, 0).b ELSE b
        c  == BufCap(b1)
        b2 == IF b1.len + n > c
              THEN IF b1.nil /\ n <= BootstrapLen
                   THEN [nil |-> FALSE, arr |-> Zeros(BootstrapLen),
                         len |-> BootstrapLen, off |-> 0]
                   ELSE IF GrowSlides(m, n, c)
                   THEN [b1 EXCEPT !.arr = Copy(b1.arr, 0, b1.len, Content(b1)),
                                   !.len = m, !.off = 0]
                   ELSE [nil |-> FALSE,
                         arr |-> Copy(Zeros(2 * c + n), 0, 2 * c + n, Content(b1)),
                         len |-> 2 * c + n, off |-> 0]
              ELSE b1
    IN  [b |-> [b2 EXCEPT !.len = b2.off + m + n], m |-> b2.off + m]

\* a Write that copies p to the start of Buf
WriteAt_Mutant(m) == 0

\* where Write copies p: copy(b.Buf[m:], p)
WriteAt(m) == m

\* b.Write(p): the buffer afterwards and the count returned
WriteBytes(b, p) ==
    LET g == growBytes(b, Len(p))
        n == Min(g.b.len - WriteAt(g.m), Len(p))
    IN  [b |-> [g.b EXCEPT !.arr = Copy(g.b.arr, WriteAt(g.m), g.b.len, p)],
         n |-> IF n < 0 THEN 0 ELSE n, err |-> "nil"]

\* a WriteTo that leaves off where it was
WriteToAdvance_Mutant(m) == 0

\* how far WriteTo moves off when the sink has accepted m bytes
WriteToAdvance(m) == m

\* b.WriteTo(w), with a sink that accepts m <= b.Len() bytes and reports e:
\* the buffer afterwards, the bytes offered to the sink, the bytes it took,
\* the count and the error returned
WriteToBytes(b, m, e) ==
    IF b.off < b.len
    THEN [b |-> [b EXCEPT !.off = b.off + WriteToAdvance(m)],
          offered |-> Content(b),
          out |-> SubSeq(Content(b), 1, m),
          n |-> m,
          err |-> IF e # "nil" THEN e
                  ELSE IF m # BufLen(b) THEN "ErrShortWrite" ELSE "nil"]
    ELSE [b |-> b, offered |-> << >>, out |-> << >>, n |-> 0, err |-> "nil"]

\* a Put that empties Buf and forgets off
PutResetBytes_Mutant(b) == [b EXCEPT !.len = 0]

\* what an admitted Put leaves of the buffer: el.off = 0, el.Buf = el.Buf[:c]
PutResetBytes(b) == [b EXCEPT !.off = 0, !.len = BufCap(b)]

\* ------------------------------------------------------------------------
\* State
\* ------------------------------------------------------------------------
VARIABLES
    list_of_pools,  \* sequence of the lists p.list; bucket o is entry o+1
    maxSize,        \* tp.maxSize
    drainTicker,    \* tp.drainTicker: "nil" or "on" (a running ticker)
    tickPending,    \* a tick sits in the channel drainTicker.C
    avg,            \* the package-level estimator
    bufs,           \* the Buffer objects, by identity; NoBuf when not allocated
    held,           \* the buffer each caller holds (el of Put, result of Get)
    pc,             \* position of each process
    o,              \* local o of Get, Put and Drain
    maintArg,       \* the argument the goroutine has computed for UpdateMaxSize
    crashed,        \* "no", or the run-time panic that ended the program
    hint,           \* the maxSize argument Init was called with
    drainSawPut,    \* a Put was in progress at some point of p's current Drain
    calls,          \* number of calls and ticks so far
    budget,         \* the number of calls and ticks the run is cut at
    buf,            \* a Buffer with its bytes, in the runs that exercise Buffer
    last,           \* the last call made on buf: its arguments and its results
    touched,        \* the buckets the Gets and Puts of a lone caller indexed
    tps,            \* the BytePool values of the runs with two pools
    mu,             \* holder of each p.mu, or "free" (runs that show the locks)
    tpMutex,        \* tp.Mutex: "nil", "free" or its holder (same runs)
    loc             \* locals of each goroutine in those runs

vars == << list_of_pools, maxSize, drainTicker, tickPending, avg, bufs,
           held, pc, o, maintArg, crashed, hint, drainSawPut, calls,
           budget, buf, last, touched, tps, mu, tpMutex, loc >>

\* the state of the runs that exercise one Buffer alone
bufferVars == << buf, last >>
\* the state that only the runs of a lone caller use
soloVars == << touched >>
\* what no step of the pool changes
\* the state that only the runs with two pools use
twoVars == << tps >>
\* the state that only the runs that show the locks use
lockVars == << mu, tpMutex, loc >>
auxVars == << budget, bufferVars, soloVars, twoVars, lockVars >>

poolVars == << list_of_pools, maxSize, drainTicker, tickPending, avg >>

NumPools == Len(list_of_pools)
Bucket(i) == list_of_pools[i + 1]
Resident(i) == { Bucket(i)[k] : k \in 1..Len(Bucket(i)) }
AllResident == UNION { Resident(i) : i \in 0..(NumPools - 1) }

RECURSIVE SumLens(_, _)
SumLens(pools, n) == IF n = 0 THEN 0 ELSE Len(pools[n]) + SumLens(pools, n - 1)
\* the value Entries() computes when nothing runs beside it
Entries == SumLens(list_of_pools, NumPools)

PutPcs == {"PutUpdate", "PutAppend", "PutRet"}
DrainPcs == {"Drain", "CloseDrain"}
\* the positions right after the return of a Drain
DrainDone == {"DrainRet", "CloseStop", "MaintUpdate"}

Running == crashed = "no"
\* a further call may start
MayCall == Running /\ calls < budget

\* ------------------------------------------------------------------------
\* Init(drainPeriod, ewmaTime, maxSize): the state when Init returns
\* ------------------------------------------------------------------------
\* maxSizeLog := log2Ceil(maxSize)
InitMaxSizeLog(h) == log2Ceil(h)
\* tp.maxSize = (1 << maxSizeLog) - 1; the clamp to math.MaxUint32 that follows
\* never applies (maxSizeLog <= 32)
InitMaxSize(h) == 2 ^ InitMaxSizeLog(h) - 1
\* make([]pool, maxSizeLog+1)
InitPools(h) == [i \in 1..(InitMaxSizeLog(h) + 1) |-> << >>]

\* no call has been made on buf
NoCall == [op |-> "none", n |-> 0, sink |-> "nil", before |-> ZeroBuffer,
           offered |-> << >>, out |-> << >>, ret |-> 0, err |-> "nil",
           stamp |-> 0]
\* the runs of the pool exercise no Buffer by its bytes
BufferUnused == buf = ZeroBuffer /\ last = NoCall
\* the buckets indexed are only recorded in the runs of a lone caller
SoloUnused == touched = {}

\* the two BytePool values of the runs with two pools, and a BytePool on
\* which Init was not called
Pools == {"A", "B"}
NoPool == [made |-> FALSE, maxSize |-> 0, lists |-> << >>]
TwoUnused == tps = [t \in Pools |-> NoPool]

\* the locals of a goroutine that is in no call: the capacity c of Put, the
\* argument x of UpdateMaxSize, the sum s of Entries, and what the goroutine
\* does when its Drain returns
NoLocals == [c |-> 0, x |-> 0, s |-> 0, after |-> "return"]
LocksUnused ==
    /\ mu = << >> /\ tpMutex = "nil"
    /\ loc = [p \in Procs |-> NoLocals]

\* the pool as Init(drainPeriod, ewmaTime, h) leaves it
PoolInit(h, drainPeriod) ==
    /\ hint = h
    /\ avg = NewEwma
    /\ maxSize = InitMaxSize(h)
    /\ list_of_pools = InitPools(h)
    /\ drainTicker = IF drainPeriod > 0 THEN "on" ELSE "nil"
    /\ tickPending = FALSE
    /\ bufs = [i \in BufIds |-> NoBuf]
    /\ held = [p \in Callers |-> None]
    /\ pc = [p \in Procs |-> IF p = Maint
                             THEN (IF drainPeriod > 0 THEN "start" ELSE "off")
                             ELSE "idle"]
    /\ o = [p \in Procs |-> 0]
    /\ maintArg = 0
    /\ crashed = "no"
    /\ drainSawPut = [p \in Procs |-> FALSE]
    /\ calls = 0

Init ==
    \E h \in 1..MaxHint, drainPeriod \in {0, 1} :
        /\ PoolInit(h, drainPeriod)
        /\ budget = MaxCalls
        /\ BufferUnused /\ SoloUnused /\ TwoUnused /\ LocksUnused

\* ------------------------------------------------------------------------
\* Helpers of the actions
\* ------------------------------------------------------------------------
\* an identity not in use: the object a fresh allocation returns
FreshId == CHOOSE i \in BufIds : bufs[i] = NoBuf
Allocated == { i \in BufIds : bufs[i] # NoBuf }
InGet == { q \in Callers : pc[q] = "GetPop" }
\* an allocation may start only if every Get in progress can still allocate
HasRoom == Cardinality(Allocated) + Cardinality(InGet) < Cardinality(BufIds)

SetList(i, l) == [list_of_pools EXCEPT ![i + 1] = l]

\* garbage collection: an object that neither a bucket nor a caller refers to
\* is gone, and its identity can be given to a later allocation
Collect(bs, pools, hs) ==
    [i \in BufIds |->
        IF \/ \E q \in Callers : hs[q] = i
           \/ \E k \in 1..Len(pools) : \E j \in 1..Len(pools[k]) : pools[k][j] = i
        THEN bs[i] ELSE NoBuf]

\* every Drain in progress has now overlapped a Put
MarkDrains ==
    [q \in Procs |-> IF pc[q] \in DrainPcs \cup DrainDone THEN TRUE ELSE drainSawPut[q]]

\* ------------------------------------------------------------------------
\* What a caller does with the buffer it holds
\* ------------------------------------------------------------------------
CallerWrite(p, n) ==
    /\ MayCall /\ pc[p] = "idle" /\ held[p] # None
    /\ Write(bufs[held[p]], n).cap <= MaxCap
    /\ bufs' = [bufs EXCEPT ![held[p]] = Write(@, n)]
    /\ calls' = calls + 1
    /\ UNCHANGED << poolVars, held, pc, o, maintArg, crashed, hint, drainSawPut >>

CallerWriteTo(p, m) ==
    /\ MayCall /\ pc[p] = "idle" /\ held[p] # None
    /\ m <= BufLen(bufs[held[p]])
    /\ bufs' = [bufs EXCEPT ![held[p]] = WriteTo(@, m)]
    /\ calls' = calls + 1
    /\ UNCHANGED << poolVars, held, pc, o, maintArg, crashed, hint, drainSawPut >>

CallerReset(p) ==
    /\ MayCall /\ pc[p] = "idle" /\ held[p] # None
    /\ bufs' = [bufs EXCEPT ![held[p]] = Reset(@)]
    /\ calls' = calls + 1
    /\ UNCHANGED << poolVars, held, pc, o, maintArg, crashed, hint, drainSawPut >>

\* ------------------------------------------------------------------------
\* Put(el)
\* ------------------------------------------------------------------------
\* the condition of the early return, with c = cap(el.Buf)
PutDiscards(c, mx, a) == c > mx \/ c < LowerBound(a) \/ c < 1

\* a Put that feeds the estimator before it tests the capacity
PutDiscardEffect_Mutant(a, b) == << [a EXCEPT !.Current = b.off], b >>

\* what Put has written when it takes the early return: nothing
PutDiscardEffect(a, b) == << a, b >>

\* c := cap(el.Buf) and the test of the early return
PutTest(p, el) ==
    /\ drainSawPut' = MarkDrains
    /\ calls' = calls + 1
    /\ IF PutDiscards(bufs'[el].cap, maxSize, avg)
       THEN /\ pc' = [pc EXCEPT ![p] = "PutRet"]
            /\ avg' = PutDiscardEffect(avg, bufs'[el])[1]
       ELSE /\ pc' = [pc EXCEPT ![p] = "PutUpdate"]
            /\ avg' = avg
    /\ UNCHANGED << list_of_pools, maxSize, drainTicker, tickPending, o, maintArg,
                    crashed, hint >>

\* Put of the buffer the caller got from Get
PutCheck(p) ==
    /\ MayCall /\ pc[p] = "idle" /\ held[p] # None
    /\ held' = held
    /\ bufs' = [bufs EXCEPT ![held[p]] =
                  IF PutDiscards(@.cap, maxSize, avg)
                  THEN PutDiscardEffect(avg, @)[2] ELSE @]
    /\ PutTest(p, held[p])

\* Put of a buffer of the caller's own: NewBuffer(size), from which a sink has
\* taken m bytes (both calls are local to the caller)
PutOwn(p, size, m) ==
    /\ MayCall /\ pc[p] = "idle" /\ held[p] = None /\ HasRoom
    /\ m <= size
    /\ held' = [held EXCEPT ![p] = FreshId]
    /\ bufs' = [bufs EXCEPT ![FreshId] =
                  LET b == WriteTo(NewBuffer(size), m)
                  IN  IF PutDiscards(b.cap, maxSize, avg)
                      THEN PutDiscardEffect(avg, b)[2] ELSE b]
    /\ PutTest(p, FreshId)

\* the value given to avg.UpdateNow
PutSample(b) == b.off

\* el.end = el.off; el.off = 0; el.Buf = el.Buf[:c].  Buffer declares no field
\* end and no method of Buffer reads one: the assignment leaves no trace in
\* the state.
PutReset(b) == [b EXCEPT !.off = 0, !.len = b.cap]

\* a Put that files the buffer under the ceiling of log2(c)
PutIndex_Mutant(c) == log2Ceil(c)

\* o := log2Floor(uint32(c))
PutIndex(c) == log2Floor(c)

\* avg.UpdateNow, the reset of el, and p := &tp.list_of_pools[o]
PutUpdate(p) ==
    /\ Running /\ pc[p] = "PutUpdate"
    /\ avg' \in UpdateNow(avg, PutSample(bufs[held[p]]))
    /\ bufs' = [bufs EXCEPT ![held[p]] = PutReset(@)]
    /\ LET i == PutIndex(bufs[held[p]].cap)
       IN  IF i < NumPools
           THEN /\ o' = [o EXCEPT ![p] = i]
                /\ pc' = [pc EXCEPT ![p] = "PutAppend"]
                /\ UNCHANGED crashed
           ELSE /\ crashed' = "index"
                /\ UNCHANGED << o, pc >>
    /\ UNCHANGED << list_of_pools, maxSize, drainTicker, tickPending,
                    held, maintArg, hint, drainSawPut, calls >>

\* p.list = append(p.list, el)
PutPush(l, el) == Append(l, el)

\* p.mu.Lock(), the append, p.mu.Unlock() and the return; the caller's
\* reference ends
PutAppend(p) ==
    /\ Running /\ pc[p] = "PutAppend"
    /\ list_of_pools' = SetList(o[p], PutPush(Bucket(o[p]), held[p]))
    /\ held' = [held EXCEPT ![p] = None]
    /\ pc' = [pc EXCEPT ![p] = "idle"]
    /\ o' = [o EXCEPT ![p] = 0]
    /\ UNCHANGED << maxSize, drainTicker, tickPending, avg, bufs,
                    maintArg, crashed, hint, drainSawPut, calls >>

\* Put has returned without keeping el: the caller lets go of it
PutRet(p) ==
    /\ Running /\ pc[p] = "PutRet"
    /\ held' = [held EXCEPT ![p] = None]
    /\ bufs' = Collect(bufs, list_of_pools, held')
    /\ pc' = [pc EXCEPT ![p] = "idle"]
    /\ UNCHANGED << poolVars, o, maintArg, crashed, hint, drainSawPut, calls >>

\* ------------------------------------------------------------------------
\* Get()
\* ------------------------------------------------------------------------
\* size := int(avg.Current)
GetSize(a) == a.Current

\* the test that bypasses the pool
GetBypass(size, mx) == size < 1 \/ size > mx

\* o := log2Ceil(uint32(size))
GetIndex(size) == log2Ceil(size)

\* the read of the estimator and of maxSize; p := &tp.list_of_pools[o]
GetStart(p) ==
    /\ MayCall /\ pc[p] = "idle" /\ held[p] = None /\ HasRoom
    /\ calls' = calls + 1
    /\ LET size == GetSize(avg)
       IN  IF GetBypass(size, maxSize)
           THEN /\ bufs' = [bufs EXCEPT ![FreshId] = NewBuffer(size)]
                /\ held' = [held EXCEPT ![p] = FreshId]
                /\ UNCHANGED << pc, o, crashed >>
           ELSE IF GetIndex(size) < NumPools
           THEN /\ o' = [o EXCEPT ![p] = GetIndex(size)]
                /\ pc' = [pc EXCEPT ![p] = "GetPop"]
                /\ UNCHANGED << bufs, held, crashed >>
           ELSE /\ crashed' = "index"
                /\ UNCHANGED << bufs, held, pc, o >>
    /\ UNCHANGED << poolVars, maintArg, hint, drainSawPut >>

\* x = p.list[n-1]
GetTop(l) == l[Len(l)]
\* a Get that leaves x in the list
GetRest_Mutant(l) == l

\* p.list = p.list[:n-1]
GetRest(l) == SubSeq(l, 1, Len(l) - 1)
\* the capacity of the buffer allocated when the bucket is empty
GetFreshSize(i) == 2 ^ i

\* p.mu.Lock(), the pop, p.mu.Unlock() and the return of x or of
\* NewBuffer(1 << o)
GetPop(p) ==
    /\ Running /\ pc[p] = "GetPop"
    /\ IF Len(Bucket(o[p])) > 0
       THEN /\ held' = [held EXCEPT ![p] = GetTop(Bucket(o[p]))]
            /\ list_of_pools' = SetList(o[p], GetRest(Bucket(o[p])))
            /\ UNCHANGED bufs
       ELSE /\ bufs' = [bufs EXCEPT ![FreshId] = NewBuffer(GetFreshSize(o[p]))]
            /\ held' = [held EXCEPT ![p] = FreshId]
            /\ UNCHANGED list_of_pools
    /\ pc' = [pc EXCEPT ![p] = "idle"]
    /\ o' = [o EXCEPT ![p] = 0]
    /\ UNCHANGED << maxSize, drainTicker, tickPending, avg,
                    maintArg, crashed, hint, drainSawPut, calls >>

\* ------------------------------------------------------------------------
\* Drain(), called by a caller, by Close or by the maintenance goroutine
\* ------------------------------------------------------------------------
\* the list that replaces p.list: make([]*Buffer, 0, cap(p.list)/2) has no
\* element (the capacity of the list is not observable)
DrainList(l) == << >>

\* a Drain whose loop stops one bucket early
DrainMore_Mutant(i, n) == i + 1 < n - 1

\* the loop test o < len(tp.list_of_pools) after o++
DrainMore(i, n) == i + 1 < n

\* where the process goes on when its Drain has returned
AfterDrain(p, at) ==
    IF at = "CloseDrain" THEN "CloseStop"
    ELSE IF p = Maint THEN "MaintUpdate" ELSE "DrainRet"

\* one turn of the loop on bucket i, by a process that is at `at`:
\* p.mu.Lock(), the replacement of the list, p.mu.Unlock(), o++ and the test
DrainTurn(p, i, at, sawPut) ==
    /\ list_of_pools' = SetList(i, DrainList(Bucket(i)))
    /\ bufs' = Collect(bufs, list_of_pools', held)
    /\ IF DrainMore(i, NumPools)
       THEN /\ o' = [o EXCEPT ![p] = i + 1]
            /\ pc' = [pc EXCEPT ![p] = at]
            /\ drainSawPut' = [drainSawPut EXCEPT ![p] = sawPut]
       ELSE /\ o' = [o EXCEPT ![p] = 0]
            /\ pc' = [pc EXCEPT ![p] = AfterDrain(p, at)]
            /\ drainSawPut' = [drainSawPut EXCEPT ![p] = sawPut]
    /\ UNCHANGED << maxSize, drainTicker, tickPending, avg, held,
                    maintArg, crashed, hint >>

PutRunning == \E q \in Callers : pc[q] \in PutPcs

\* the call of Drain and its first turn
DrainCall(p) ==
    /\ MayCall /\ pc[p] = "idle"
    /\ calls' = calls + 1
    /\ DrainTurn(p, 0, "Drain", PutRunning)

\* a further turn of the loop
DrainNext(p) ==
    /\ Running /\ pc[p] \in DrainPcs
    /\ UNCHANGED calls
    /\ DrainTurn(p, o[p], pc[p], drainSawPut[p])

\* Drain has returned to the caller
DrainRet(p) ==
    /\ Running /\ pc[p] = "DrainRet"
    /\ pc' = [pc EXCEPT ![p] = "idle"]
    /\ drainSawPut' = [drainSawPut EXCEPT ![p] = FALSE]
    /\ UNCHANGED << poolVars, bufs, held, o, maintArg, crashed, hint, calls >>

\* ------------------------------------------------------------------------
\* Close()
\* ------------------------------------------------------------------------
\* the call of Close and the first turn of its Drain
CloseCall(p) ==
    /\ MayCall /\ pc[p] = "idle"
    /\ calls' = calls + 1
    /\ DrainTurn(p, 0, "CloseDrain", PutRunning)

\* tp.drainTicker.Stop(); tp.drainTicker = nil.  Stop sends no further tick;
\* it does not empty the channel and does not wait for the goroutine.
StopTicker(t) == "nil"

CloseStop(p) ==
    /\ Running /\ pc[p] = "CloseStop"
    /\ drainTicker' = IF drainTicker # "nil" THEN StopTicker(drainTicker) ELSE drainTicker
    /\ pc' = [pc EXCEPT ![p] = "idle"]
    /\ drainSawPut' = [drainSawPut EXCEPT ![p] = FALSE]
    /\ UNCHANGED << list_of_pools, maxSize, tickPending, avg, bufs, held,
                    o, maintArg, crashed, hint, calls >>

\* ------------------------------------------------------------------------
\* UpdateMaxSize(x)
\* ------------------------------------------------------------------------
\* tp.Lock(); tp.maxSize = x; the deferred tp.Unlock()
SetMaxSize(x) == maxSize' = x

UpdateMaxSize(p, x) ==
    /\ MayCall /\ pc[p] = "idle"
    /\ calls' = calls + 1
    /\ SetMaxSize(x)
    /\ UNCHANGED << list_of_pools, drainTicker, tickPending, avg, bufs, held,
                    pc, o, maintArg, crashed, hint, drainSawPut >>

\* ------------------------------------------------------------------------
\* The maintenance goroutine of Init and its ticker
\* ------------------------------------------------------------------------
\* the runtime sends a tick into drainTicker.C (a channel of capacity 1)
Tick ==
    /\ MayCall /\ drainTicker = "on" /\ ~tickPending
    /\ calls' = calls + 1
    /\ tickPending' = TRUE
    /\ UNCHANGED << list_of_pools, maxSize, drainTicker, avg, bufs, held,
                    pc, o, maintArg, crashed, hint, drainSawPut >>

\* the goroutine starts: range evaluates tp.drainTicker.C once, without any
\* synchronisation with Close
MaintStart ==
    /\ Running /\ pc[Maint] = "start"
    /\ IF drainTicker = "nil"
       THEN crashed' = "nil" /\ UNCHANGED pc
       ELSE pc' = [pc EXCEPT ![Maint] = "wait"] /\ UNCHANGED crashed
    /\ UNCHANGED << poolVars, bufs, held, o, maintArg, hint, drainSawPut, calls >>

\* a tick is received: tp.Drain() is called
MaintRecv ==
    /\ Running /\ pc[Maint] = "wait" /\ tickPending
    /\ tickPending' = FALSE
    /\ pc' = [pc EXCEPT ![Maint] = "Drain"]
    /\ drainSawPut' = [drainSawPut EXCEPT ![Maint] = PutRunning]
    /\ UNCHANGED << list_of_pools, maxSize, drainTicker, avg, bufs, held,
                    o, maintArg, crashed, hint, calls >>

\* the argument of tp.UpdateMaxSize(int(avg.Current + stdOff*avg.StdDev))
MaintUpdate ==
    /\ Running /\ pc[Maint] = "MaintUpdate"
    /\ maintArg' = UpperBound(avg)
    /\ pc' = [pc EXCEPT ![Maint] = "MaintSet"]
    /\ drainSawPut' = [drainSawPut EXCEPT ![Maint] = FALSE]
    /\ UNCHANGED << poolVars, bufs, held, o, crashed, hint, calls >>

\* tp.UpdateMaxSize of the goroutine; it then waits for the next tick
MaintSet ==
    /\ Running /\ pc[Maint] = "MaintSet"
    /\ SetMaxSize(maintArg)
    /\ maintArg' = 0
    /\ pc' = [pc EXCEPT ![Maint] = "wait"]
    /\ UNCHANGED << list_of_pools, drainTicker, tickPending, avg, bufs, held,
                    o, crashed, hint, drainSawPut, calls >>

\* ------------------------------------------------------------------------
\* The specification
\* ------------------------------------------------------------------------
Next ==
    \/ \E p \in Writers, n \in 1..MaxCap : CallerWrite(p, n)
          /\ UNCHANGED auxVars
    \/ \E p \in Writers, m \in 1..MaxCap : CallerWriteTo(p, m)
          /\ UNCHANGED auxVars
    \/ \E p \in Writers : CallerReset(p)
          /\ UNCHANGED auxVars
    \/ \E p \in Callers : PutCheck(p)
          /\ UNCHANGED auxVars
    \/ \E p \in Writers, size \in 0..MaxCap, m \in 0..MaxCap : PutOwn(p, size, m)
          /\ UNCHANGED auxVars
    \/ \E p \in Callers : PutUpdate(p)
          /\ UNCHANGED auxVars
    \/ \E p \in Callers : PutAppend(p)
          /\ UNCHANGED auxVars
    \/ \E p \in Callers : PutRet(p)
          /\ UNCHANGED auxVars
    \/ \E p \in Callers : GetStart(p)
          /\ UNCHANGED auxVars
    \/ \E p \in Callers : GetPop(p)
          /\ UNCHANGED auxVars
    \/ \E p \in Admins : DrainCall(p)
          /\ UNCHANGED auxVars
    \/ \E p \in Procs : DrainNext(p)
          /\ UNCHANGED auxVars
    \/ \E p \in Admins : DrainRet(p)
          /\ UNCHANGED auxVars
    \/ \E p \in Admins : CloseCall(p)
          /\ UNCHANGED auxVars
    \/ \E p \in Admins : CloseStop(p)
          /\ UNCHANGED auxVars
    \/ \E p \in Admins, x \in NewMaxSizes : UpdateMaxSize(p, x)
          /\ UNCHANGED auxVars
    \/ Tick
          /\ UNCHANGED auxVars
    \/ MaintStart
          /\ UNCHANGED auxVars
    \/ MaintRecv
          /\ UNCHANGED auxVars
    \/ MaintUpdate
          /\ UNCHANGED auxVars
    \/ MaintSet
          /\ UNCHANGED auxVars

Spec == Init /\ [][Next]_vars

\* ------------------------------------------------------------------------
\* One Buffer exercised by its bytes: a sequence of Write, WriteTo, Truncate,
\* Reset and trips through the pool (an admitted Put followed by the Get that
\* returns the buffer) on a buffer that starts as the zero value or as the
\* result of NewBuffer.  The k-th byte ever written is the number k, so that
\* the place of every written byte can be told.
\* ------------------------------------------------------------------------
poolState == << list_of_pools, maxSize, drainTicker, tickPending, avg, bufs,
                held, pc, o, maintArg, crashed, hint, drainSawPut >>

\* no pool takes part: the state of a BytePool on which Init was not called
PoolUnused ==
    /\ list_of_pools = << >> /\ maxSize = 0 /\ drainTicker = "nil"
    /\ tickPending = FALSE /\ avg = NewEwma
    /\ bufs = [i \in BufIds |-> NoBuf]
    /\ held = [p \in Callers |-> None]
    /\ pc = [p \in Procs |-> IF p = Maint THEN "off" ELSE "idle"]
    /\ o = [p \in Procs |-> 0]
    /\ maintArg = 0 /\ crashed = "no" /\ hint = 0
    /\ drainSawPut = [p \in Procs |-> FALSE]

\* what no step of these runs changes
bufferRest == << poolState, budget, soloVars, twoVars, lockVars >>

BufferInit ==
    /\ PoolUnused /\ calls = 0 /\ budget = MaxCalls
    /\ SoloUnused /\ TwoUnused /\ LocksUnused
    /\ buf \in {ZeroBuffer} \cup { NewBufferBytes(k) : k \in 0..MaxBufCap }
    /\ last = NoCall

\* the errors a sink may report
SinkErrs == {"nil", "sink failed"}
\* the bytes of the next Write of n bytes
NextBytes(n) == [i \in 1..n |-> last.stamp + i]
CapInBounds(b) == BufCap(b) <= MaxBufCap \/ BufCap(b) = BootstrapLen

BufferWrite(n) ==
    LET r == WriteBytes(buf, NextBytes(n))
    IN  /\ calls < budget /\ CapInBounds(r.b)
        /\ buf' = r.b
        /\ last' = [op |-> "Write", n |-> n, sink |-> "nil", before |-> buf,
                    offered |-> << >>, out |-> NextBytes(n), ret |-> r.n,
                    err |-> r.err, stamp |-> last.stamp + n]
        /\ calls' = calls + 1
        /\ UNCHANGED bufferRest

BufferWriteTo(m, e) ==
    LET r == WriteToBytes(buf, m, e)
    IN  /\ calls < budget /\ m <= BufLen(buf)
        /\ buf' = r.b
        /\ last' = [last EXCEPT !.op = "WriteTo", !.n = m, !.sink = e,
                                !.before = buf, !.offered = r.offered,
                                !.out = r.out, !.ret = r.n, !.err = r.err]
        /\ calls' = calls + 1
        /\ UNCHANGED bufferRest

BufferTruncate(n) ==
    LET r == TruncateBytes(buf, n)
    IN  /\ calls < budget
        /\ buf' = r.b
        /\ last' = [last EXCEPT !.op = "Truncate", !.n = n, !.sink = "nil",
                                !.before = buf, !.offered = << >>,
                                !.out = << >>, !.ret = 0, !.err = r.err]
        /\ calls' = calls + 1
        /\ UNCHANGED bufferRest

\* b.Reset() is b.Truncate(0)
BufferReset ==
    LET r == TruncateBytes(buf, 0)
    IN  /\ calls < budget
        /\ buf' = r.b
        /\ last' = [last EXCEPT !.op = "Reset", !.n = 0, !.sink = "nil",
                                !.before = buf, !.offered = << >>,
                                !.out = << >>, !.ret = 0, !.err = r.err]
        /\ calls' = calls + 1
        /\ UNCHANGED bufferRest

\* a Put that keeps the buffer (its capacity is at least 1), then the Get
\* that pops it
BufferPooled ==
    /\ calls < budget /\ BufCap(buf) >= 1
    /\ buf' = PutResetBytes(buf)
    /\ last' = [last EXCEPT !.op = "PutGet", !.n = 0, !.sink = "nil",
                            !.before = buf, !.offered = << >>,
                            !.out = << >>, !.ret = 0, !.err = "nil"]
    /\ calls' = calls + 1
    /\ UNCHANGED bufferRest

BufferNext ==
    \/ \E n \in 0..MaxCap : BufferWrite(n)
    \/ \E m \in 0..MaxBufCap, e \in SinkErrs : BufferWriteTo(m, e)
    \/ \E n \in -1..(MaxBufCap + 1) : BufferTruncate(n)
    \/ BufferReset
    \/ BufferPooled

BufferSpec == BufferInit /\ [][BufferNext]_vars

\* ------------------------------------------------------------------------
\* A lone caller that repeats: Get, any number of Write and WriteTo on the
\* buffer it got, Put of that buffer.  No maintenance, no other goroutine.
\* ------------------------------------------------------------------------
Solo == "c1"
soloRest == << budget, bufferVars, twoVars, lockVars >>

SoloInit ==
    /\ \E h \in 1..MaxHint : PoolInit(h, 0)
    /\ budget = MaxSoloCalls
    /\ BufferUnused /\ SoloUnused /\ TwoUnused /\ LocksUnused

\* the bucket a step of Get (line 100) or of Put (line 81) has just indexed
Indexed ==
    IF pc'[Solo] # pc[Solo] /\ pc'[Solo] \in {"GetPop", "PutAppend"}
    THEN {o'[Solo]} ELSE {}

\* every step records the bucket it indexes, if any
Records == touched' = touched \cup Indexed /\ UNCHANGED soloRest

SoloNext ==
    \/ GetStart(Solo) /\ Records
    \/ GetPop(Solo) /\ Records
    \/ \E n \in 1..MaxCap : CallerWrite(Solo, n) /\ Records
    \/ \E m \in 1..MaxCap : CallerWriteTo(Solo, m) /\ Records
    \/ PutCheck(Solo) /\ Records
    \/ PutUpdate(Solo) /\ Records
    \/ PutAppend(Solo) /\ Records
    \/ PutRet(Solo) /\ Records

SoloSpec == SoloInit /\ [][SoloNext]_vars

\* ------------------------------------------------------------------------
\* Two BytePool values in one program.  Each has its own maxSize and its own
\* buckets (tps[t]); avg is the package-level variable of lines 25-28, the
\* one estimator there is.  A call is one step; a bucket holds the
\* capacities of its buffers.
\* ------------------------------------------------------------------------
twoRest == << list_of_pools, maxSize, drainTicker, tickPending, bufs, held,
              pc, o, maintArg, hint, drainSawPut, budget, bufferVars,
              soloVars, lockVars >>

TwoInit ==
    /\ PoolUnused /\ calls = 0 /\ budget = MaxCalls
    /\ BufferUnused /\ SoloUnused /\ TwoUnused /\ LocksUnused

\* t.Init(drainPeriod, ewmaTime, h): line 35 assigns the package-level avg
InitOn(t, h) ==
    /\ MayCall /\ ~tps[t].made
    /\ avg' = NewEwma
    /\ tps' = [tps EXCEPT ![t] = [made |-> TRUE, maxSize |-> InitMaxSize(h),
                                  lists |-> InitPools(h)]]
    /\ calls' = calls + 1
    /\ UNCHANGED << crashed, twoRest >>

\* t.Put(el) with cap(el.Buf) = c and el.off = v
PutOn(t, c, v) ==
    /\ MayCall /\ tps[t].made /\ v <= c
    /\ calls' = calls + 1
    /\ IF PutDiscards(c, tps[t].maxSize, avg)
       THEN UNCHANGED << avg, tps, crashed >>
       ELSE /\ avg' \in UpdateNow(avg, v)
            /\ IF PutIndex(c) < Len(tps[t].lists)
               THEN /\ tps' = [tps EXCEPT ![t].lists[PutIndex(c) + 1] =
                                              PutPush(@, c)]
                    /\ UNCHANGED crashed
               ELSE crashed' = "index" /\ UNCHANGED tps
    /\ UNCHANGED twoRest

\* t.Get()
GetOn(t) ==
    /\ MayCall /\ tps[t].made
    /\ calls' = calls + 1
    /\ LET size == GetSize(avg)
           i    == GetIndex(size)
       IN  IF GetBypass(size, tps[t].maxSize)
           THEN UNCHANGED << tps, crashed >>
           ELSE IF i < Len(tps[t].lists)
           THEN /\ tps' = [tps EXCEPT ![t].lists[i + 1] =
                                          IF Len(@) > 0 THEN GetRest(@) ELSE @]
                /\ UNCHANGED crashed
           ELSE crashed' = "index" /\ UNCHANGED tps
    /\ UNCHANGED << avg, twoRest >>

\* a tick of t's goroutine: t.Drain(), then t.UpdateMaxSize(int(avg.Current +
\* stdOff*avg.StdDev))
TickOn(t) ==
    /\ MayCall /\ tps[t].made
    /\ calls' = calls + 1
    /\ tps' = [tps EXCEPT ![t].lists = [k \in 1..Len(@) |-> DrainList(@[k])],
                          ![t].maxSize = UpperBound(avg)]
    /\ UNCHANGED << avg, crashed, twoRest >>

TwoNext ==
    \/ \E t \in Pools, h \in 1..MaxHint : InitOn(t, h)
    \/ \E t \in Pools, c \in 0..MaxCap, v \in 0..MaxCap : PutOn(t, c, v)
    \/ \E t \in Pools : GetOn(t)
    \/ \E t \in Pools : TickOn(t)

TwoSpec == TwoInit /\ [][TwoNext]_vars

\* ------------------------------------------------------------------------
\* The locks.  Every Lock, every Unlock and every access to tp.maxSize is a
\* step of its own goroutine; a bucket holds the capacities of its buffers.
\* The runs start where Init has started its goroutine (line 46) and is
\* about to install tp.Mutex (line 53); callers call once Init has returned.
\* ------------------------------------------------------------------------
MaxLockCalls == 3

lockRest == << bufs, held, maintArg, drainSawPut, hint, budget, bufferVars,
               soloVars, twoVars >>

LockInit ==
    /\ \E h \in 1..MaxHint, drainPeriod \in {0, 1} : PoolInit(h, drainPeriod)
    /\ budget = MaxLockCalls
    /\ mu = [i \in 1..NumPools |-> "free"]
    /\ tpMutex = "nil"
    /\ loc = [p \in Procs |-> NoLocals]
    /\ BufferUnused /\ SoloUnused /\ TwoUnused

\* the goroutine p stands at the step l
At(p, l) == Running /\ pc[p] = l
Goto(p, l) == pc' = [pc EXCEPT ![p] = l]
\* a caller starts a call: Init has returned
Enters(p) == MayCall /\ pc[p] = "idle" /\ tpMutex # "nil"
\* the goroutine that ran a call is back where it came from
Rest(p) == IF p = Maint THEN "wait" ELSE "idle"

\* tp.Mutex = &sync.Mutex{} (line 53)
InitMutex ==
    /\ Running /\ tpMutex = "nil"
    /\ tpMutex' = "free"
    /\ UNCHANGED << list_of_pools, maxSize, drainTicker, tickPending, avg,
                    pc, o, crashed, calls, mu, loc, lockRest >>

\* p.mu.Lock() on the bucket o[p]: waits until the mutex is free
LockBucket(p) == mu[o[p] + 1] = "free" /\ mu' = [mu EXCEPT ![o[p] + 1] = p]
\* p.mu.Unlock()
UnlockBucket(p) == mu' = [mu EXCEPT ![o[p] + 1] = "free"]

\* Put, lines 58-81: cap(el.Buf) is tested against tp.maxSize and the
\* estimator, the estimator is fed el.off, p := &tp.list_of_pools[o]
PutReads(p, c, v) ==
    /\ Enters(p)
    /\ calls' = calls + 1
    /\ IF PutDiscards(c, maxSize, avg)
       THEN UNCHANGED << avg, pc, o, crashed, loc >>
       ELSE /\ avg' \in UpdateNow(avg, v)
            /\ IF PutIndex(c) < NumPools
               THEN /\ o' = [o EXCEPT ![p] = PutIndex(c)]
                    /\ loc' = [loc EXCEPT ![p].c = c]
                    /\ Goto(p, "PutLock")
                    /\ UNCHANGED crashed
               ELSE /\ crashed' = "index"
                    /\ Goto(p, "panic")
                    /\ UNCHANGED << o, loc >>
    /\ UNCHANGED << list_of_pools, maxSize, drainTicker, tickPending, mu,
                    tpMutex, lockRest >>

\* line 82
PutLocks(p) ==
    /\ At(p, "PutLock")
    /\ LockBucket(p)
    /\ Goto(p, "PutAppend")
    /\ UNCHANGED << list_of_pools, maxSize, drainTicker, tickPending, avg,
                    o, crashed, calls, tpMutex, loc, lockRest >>

\* lines 83-84: p.list = append(p.list, el); p.mu.Unlock()
PutAppends(p) ==
    /\ At(p, "PutAppend")
    /\ list_of_pools' = SetList(o[p], Append(list_of_pools[o[p] + 1], loc[p].c))
    /\ UnlockBucket(p)
    /\ loc' = [loc EXCEPT ![p] = NoLocals]
    /\ Goto(p, "idle")
    /\ UNCHANGED << maxSize, drainTicker, tickPending, avg, o, crashed,
                    calls, tpMutex, lockRest >>

\* Get, lines 92-100: the estimator and tp.maxSize are read
GetReads(p) ==
    /\ Enters(p)
    /\ calls' = calls + 1
    /\ LET size == GetSize(avg)
       IN  IF GetBypass(size, maxSize)
           THEN UNCHANGED << pc, o, crashed >>
           ELSE IF GetIndex(size) < NumPools
           THEN /\ o' = [o EXCEPT ![p] = GetIndex(size)]
                /\ Goto(p, "GetLock")
                /\ UNCHANGED crashed
           ELSE /\ crashed' = "index"
                /\ Goto(p, "panic")
                /\ UNCHANGED o
    /\ UNCHANGED << list_of_pools, maxSize, drainTicker, tickPending, avg,
                    mu, tpMutex, loc, lockRest >>

\* line 102
GetLocks(p) ==
    /\ At(p, "GetLock")
    /\ LockBucket(p)
    /\ Goto(p, "GetPop")
    /\ UNCHANGED << list_of_pools, maxSize, drainTicker, tickPending, avg,
                    o, crashed, calls, tpMutex, loc, lockRest >>

\* lines 103-108: the top of the bucket, if any, is taken; p.mu.Unlock()
GetPops(p) ==
    /\ At(p, "GetPop")
    /\ LET l == list_of_pools[o[p] + 1]
       IN  list_of_pools' =
               IF Len(l) > 0 THEN SetList(o[p], SubSeq(l, 1, Len(l) - 1))
               ELSE list_of_pools
    /\ UnlockBucket(p)
    /\ Goto(p, "idle")
    /\ UNCHANGED << maxSize, drainTicker, tickPending, avg, o, crashed,
                    calls, tpMutex, loc, lockRest >>

\* tp.Drain() is called; after tells what follows its return
DrainEnters(p) ==
    /\ Enters(p)
    /\ calls' = calls + 1
    /\ o' = [o EXCEPT ![p] = 0]
    /\ loc' = [loc EXCEPT ![p].after = "return"]
    /\ Goto(p, "DrainLock")
    /\ UNCHANGED << list_of_pools, maxSize, drainTicker, tickPending, avg,
                    crashed, mu, tpMutex, lockRest >>

\* line 121
DrainLocks(p) ==
    /\ At(p, "DrainLock")
    /\ LockBucket(p)
    /\ Goto(p, "DrainSet")
    /\ UNCHANGED << list_of_pools, maxSize, drainTicker, tickPending, avg,
                    o, crashed, calls, tpMutex, loc, lockRest >>

\* lines 122-123 and the loop: the bucket is emptied and unlocked; the
\* goroutine goes to the next bucket or Drain returns
DrainSets(p) ==
    /\ At(p, "DrainSet")
    /\ list_of_pools' = SetList(o[p], << >>)
    /\ UnlockBucket(p)
    /\ IF DrainMore(o[p], NumPools)
       THEN /\ o' = [o EXCEPT ![p] = o[p] + 1]
            /\ Goto(p, "DrainLock")
            /\ UNCHANGED loc
       ELSE /\ o' = [o EXCEPT ![p] = 0]
            /\ CASE loc[p].after = "return" ->
                        Goto(p, "idle") /\ loc' = [loc EXCEPT ![p] = NoLocals]
                 [] loc[p].after = "close" ->
                        Goto(p, "CloseStop") /\ loc' = [loc EXCEPT ![p] = NoLocals]
                 [] loc[p].after = "update" ->
                        /\ Goto(p, "UpdateLock")
                        /\ loc' = [loc EXCEPT ![p] =
                                      [NoLocals EXCEPT !.x = UpperBound(avg)]]
    /\ UNCHANGED << maxSize, drainTicker, tickPending, avg, crashed, calls,
                    tpMutex, lockRest >>

\* tp.Close() is called: it calls tp.Drain()
CloseEnters(p) ==
    /\ Enters(p)
    /\ calls' = calls + 1
    /\ o' = [o EXCEPT ![p] = 0]
    /\ loc' = [loc EXCEPT ![p].after = "close"]
    /\ Goto(p, "DrainLock")
    /\ UNCHANGED << list_of_pools, maxSize, drainTicker, tickPending, avg,
                    crashed, mu, tpMutex, lockRest >>

\* lines 130-133
CloseStops(p) ==
    /\ At(p, "CloseStop")
    /\ drainTicker' = StopTicker(drainTicker)
    /\ tickPending' = FALSE
    /\ Goto(p, "idle")
    /\ UNCHANGED << list_of_pools, maxSize, avg, o, crashed, calls, mu,
                    tpMutex, loc, lockRest >>

\* tp.Entries() is called
EntriesEnters(p) ==
    /\ Enters(p)
    /\ calls' = calls + 1
    /\ o' = [o EXCEPT ![p] = 0]
    /\ Goto(p, "EntriesLock")
    /\ UNCHANGED << list_of_pools, maxSize, drainTicker, tickPending, avg,
                    crashed, mu, tpMutex, loc, lockRest >>

\* line 141
EntriesLocks(p) ==
    /\ At(p, "EntriesLock")
    /\ LockBucket(p)
    /\ Goto(p, "EntriesAdd")
    /\ UNCHANGED << list_of_pools, maxSize, drainTicker, tickPending, avg,
                    o, crashed, calls, tpMutex, loc, lockRest >>

\* lines 142-143 and the loop: s += len(p.list); p.mu.Unlock()
EntriesAdds(p) ==
    /\ At(p, "EntriesAdd")
    /\ UnlockBucket(p)
    /\ IF DrainMore(o[p], NumPools)
       THEN /\ o' = [o EXCEPT ![p] = o[p] + 1]
            /\ loc' = [loc EXCEPT ![p].s = @ + Len(list_of_pools[o[p] + 1])]
            /\ Goto(p, "EntriesLock")
       ELSE /\ o' = [o EXCEPT ![p] = 0]
            /\ loc' = [loc EXCEPT ![p] = NoLocals]
            /\ Goto(p, "idle")
    /\ UNCHANGED << list_of_pools, maxSize, drainTicker, tickPending, avg,
                    crashed, calls, tpMutex, lockRest >>

\* tp.UpdateMaxSize(x) is called
UpdateEnters(p, x) ==
    /\ Enters(p)
    /\ calls' = calls + 1
    /\ loc' = [loc EXCEPT ![p].x = x]
    /\ Goto(p, "UpdateLock")
    /\ UNCHANGED << list_of_pools, maxSize, drainTicker, tickPending, avg,
                    o, crashed, mu, tpMutex, lockRest >>

\* line 150, tp.Lock(): tp.Mutex is an embedded *sync.Mutex, and Lock on
\* the nil pointer Init has not replaced yet panics
UpdateLocks(p) ==
    /\ At(p, "UpdateLock")
    /\ tpMutex \in {"nil", "free"}
    /\ IF tpMutex = "nil"
       THEN crashed' = "nil" /\ Goto(p, "panic") /\ UNCHANGED tpMutex
       ELSE tpMutex' = p /\ Goto(p, "UpdateWrite") /\ UNCHANGED crashed
    /\ UNCHANGED << list_of_pools, maxSize, drainTicker, tickPending, avg,
                    o, calls, mu, loc, lockRest >>

\* lines 152 and 151: tp.maxSize = x, then the deferred tp.Unlock()
UpdateWrites(p) ==
    /\ At(p, "UpdateWrite")
    /\ SetMaxSize(loc[p].x)
    /\ tpMutex' = "free"
    /\ loc' = [loc EXCEPT ![p] = NoLocals]
    /\ Goto(p, Rest(p))
    /\ UNCHANGED << list_of_pools, drainTicker, tickPending, avg, o, crashed,
                    calls, mu, lockRest >>

\* the ticker fires
Ticks ==
    /\ MayCall /\ drainTicker = "on" /\ ~tickPending
    /\ tickPending' = TRUE
    /\ calls' = calls + 1
    /\ UNCHANGED << list_of_pools, maxSize, drainTicker, avg, pc, o, crashed,
                    mu, tpMutex, loc, lockRest >>

\* line 47: the goroutine evaluates tp.drainTicker.C
GoStarts ==
    /\ At(Maint, "start")
    /\ IF drainTicker = "nil"
       THEN crashed' = "nil" /\ Goto(Maint, "panic")
       ELSE Goto(Maint, "wait") /\ UNCHANGED crashed
    /\ UNCHANGED << list_of_pools, maxSize, drainTicker, tickPending, avg,
                    o, calls, mu, tpMutex, loc, lockRest >>

\* lines 47-48: a tick is received and tp.Drain() is called
GoReceives ==
    /\ At(Maint, "wait") /\ tickPending
    /\ tickPending' = FALSE
    /\ o' = [o EXCEPT ![Maint] = 0]
    /\ loc' = [loc EXCEPT ![Maint].after = "update"]
    /\ Goto(Maint, "DrainLock")
    /\ UNCHANGED << list_of_pools, maxSize, drainTicker, avg, crashed, calls,
                    mu, tpMutex, lockRest >>

\* the next step of a call the goroutine p is in
Continues(p) ==
    \/ PutLocks(p)
    \/ PutAppends(p)
    \/ GetLocks(p)
    \/ GetPops(p)
    \/ DrainLocks(p)
    \/ DrainSets(p)
    \/ CloseStops(p)
    \/ EntriesLocks(p)
    \/ EntriesAdds(p)
    \/ UpdateLocks(p)
    \/ UpdateWrites(p)

LockNext ==
    \/ InitMutex
    \/ \E p \in Writers, c \in 0..MaxCap : \E v \in {0, c} : PutReads(p, c, v)
    \/ \E p \in Writers : GetReads(p)
    \/ \E p \in Admins : DrainEnters(p)
    \/ \E p \in Admins : CloseEnters(p)
    \/ \E p \in Admins : EntriesEnters(p)
    \/ \E p \in Admins, x \in NewMaxSizes : UpdateEnters(p, x)
    \/ \E p \in Procs : PutLocks(p)
    \/ \E p \in Procs : PutAppends(p)
    \/ \E p \in Procs : GetLocks(p)
    \/ \E p \in Procs : GetPops(p)
    \/ \E p \in Procs : DrainLocks(p)
    \/ \E p \in Procs : DrainSets(p)
    \/ \E p \in Procs : CloseStops(p)
    \/ \E p \in Procs : EntriesLocks(p)
    \/ \E p \in Procs : EntriesAdds(p)
    \/ \E p \in Procs : UpdateLocks(p)
    \/ \E p \in Procs : UpdateWrites(p)
    \/ Ticks
    \/ GoStarts
    \/ GoReceives

LockSpec == LockInit /\ [][LockNext]_vars

\* The scheduler runs every goroutine that can take a step, and Init runs
\* to its end.
LockFairSpec ==
    /\ LockSpec
    /\ WF_vars(InitMutex)
    /\ WF_vars(GoStarts)
    /\ \A p \in Procs : WF_vars(Continues(p))

\* ------------------------------------------------------------------------
\* Properties
\* ------------------------------------------------------------------------
Holding == { p \in Callers : held[p] # None }

\* floor(log2(c)) and ceil(log2(c)) by their definition, for c >= 1
FloorLog2(c) == CHOOSE k \in 0..c : 2 ^ k <= c /\ c < 2 ^ (k + 1)
CeilLog2(c) == CHOOSE k \in 0..c : c <= 2 ^ k /\ (k = 0 \/ 2 ^ (k - 1) < c)

\* p's Put makes its capacity test in this step, on buffer held'[p]
PutTests(p) == pc[p] = "idle" /\ pc'[p] \in {"PutRet", "PutUpdate"}
\* p's Get returns in this step, with buffer held'[p]
GetReturns(p) == held[p] = None /\ held'[p] # None /\ pc'[p] = "idle"
\* p makes a turn of the loop of Drain in this step
DrainTurns(p) ==
    \/ pc[p] \in DrainPcs /\ (pc'[p] # pc[p] \/ o'[p] # o[p])
    \/ pc[p] = "idle" /\ pc'[p] \in DrainPcs \cup DrainDone

\* C1: no buffer is resident in two buckets or twice in one bucket, held by two
\* callers at once, or both resident in a bucket and held by a caller.
C1_ExclusiveOwnership ==
    /\ Entries = Cardinality(AllResident)
    /\ \A p, q \in Holding : p # q => held[p] # held[q]
    /\ \A p \in Holding : held[p] \notin AllResident

\* a Get is about to pop from a bucket that holds a buffer while a Put of the
\* other caller is about to append to the same bucket
C1_Witness ==
    \E p, q \in Callers :
        /\ p # q /\ pc[p] = "GetPop" /\ pc[q] = "PutAppend"
        /\ o[p] = o[q] /\ Len(Bucket(o[p])) > 0

\* C2: Get and Put never fail: the bucket index each computes is a valid index
\* of list_of_pools, whatever value maxSize has.
C2_NeverFails == crashed # "index"

\* C3: a Put of a buffer whose capacity c is in [1, maxSize] is never
\* discarded, whatever the state of the estimator: it adds exactly one entry,
\* the buffer, to bucket floor(log2(c)).
C3_RetainsInRange ==
    [][\A p \in Callers :
          /\ (PutTests(p) /\ bufs'[held'[p]].cap \in 1..maxSize)
                => pc'[p] = "PutUpdate"
          /\ (pc[p] = "PutUpdate" /\ pc'[p] # "PutUpdate")
                => (pc'[p] = "PutAppend" /\ crashed' = crashed)
          /\ (pc[p] = "PutAppend" /\ pc'[p] # "PutAppend") =>
                LET i == FloorLog2(bufs[held[p]].cap)
                IN  /\ Entries' = Entries + 1
                    /\ i < NumPools
                    /\ list_of_pools'[i + 1] = Append(list_of_pools[i + 1], held[p])]_vars

\* C4: a Put of a buffer whose capacity is < 1 or > maxSize changes no bucket,
\* not the estimator, not maxSize and not the buffer.
C4_DiscardIsNoOp ==
    [][\A p \in Callers :
          (PutTests(p) /\ (bufs'[held'[p]].cap < 1 \/ bufs'[held'[p]].cap > maxSize))
              => /\ pc'[p] = "PutRet"
                 /\ list_of_pools' = list_of_pools
                 /\ Entries' = Entries
                 /\ avg' = avg
                 /\ maxSize' = maxSize
                 /\ \A b \in BufIds : bufs[b] # NoBuf => bufs'[b] = bufs[b]]_vars

\* a buffer above the ceiling has been discarded by a pool that holds a
\* buffer and whose estimator has moved
C4_Witness ==
    \E p \in Callers :
        /\ pc[p] = "PutRet" /\ bufs[held[p]].cap > maxSize
        /\ Entries >= 1 /\ avg.Current >= 1

\* C5: the value Put gives to the estimator is the Len() of the buffer.
C5_SampleIsLen ==
    \A p \in Callers :
        pc[p] = "PutUpdate" => PutSample(bufs[held[p]]) = BufLen(bufs[held[p]])

\* C6: a buffer returned by Get holds no data: Len() = 0 and off = 0.
C6_GetReturnsEmpty ==
    [][\A p \in Callers :
          GetReturns(p) => BufLen(bufs'[held'[p]]) = 0 /\ bufs'[held'[p]].off = 0]_vars

\* C7: with m the mean of the estimator, a Get with m < 1 or m > maxSize
\* returns a fresh buffer and leaves the buckets alone; any other Get goes to
\* bucket ceil(log2(m)) and returns the buffer put there last, removing that
\* one only, or a fresh buffer of capacity 2^i when the bucket is empty.
C7_GetContract ==
    [][\A p \in Callers :
          /\ (pc[p] = "idle" /\ held[p] = None /\ calls' # calls
                 /\ pc'[p] \notin PutPcs \cup DrainPcs \cup DrainDone
                 /\ (held'[p] # None \/ pc'[p] = "GetPop" \/ crashed' # crashed)) =>
                IF avg.Current < 1 \/ avg.Current > maxSize
                THEN /\ held'[p] # None /\ bufs[held'[p]] = NoBuf
                     /\ list_of_pools' = list_of_pools
                ELSE /\ crashed' = crashed
                     /\ pc'[p] = "GetPop" /\ o'[p] = CeilLog2(avg.Current)
          /\ (pc[p] = "GetPop" /\ pc'[p] = "idle") =>
                LET l == Bucket(o[p])
                IN  IF Len(l) > 0
                    THEN /\ held'[p] = l[Len(l)]
                         /\ list_of_pools' = SetList(o[p], SubSeq(l, 1, Len(l) - 1))
                    ELSE /\ bufs[held'[p]] = NoBuf
                         /\ bufs'[held'[p]].cap = 2 ^ o[p]
                         /\ list_of_pools' = list_of_pools]_vars

\* C8: when a Drain returns that no Put has overlapped, every bucket is empty
\* and Entries() is 0; no turn of Drain changes a buffer a caller holds, the
\* estimator or maxSize.
C8_Drain ==
    [][\A p \in Procs :
          /\ (pc'[p] \in DrainDone /\ ~drainSawPut'[p]) =>
                /\ Entries' = 0
                /\ \A i \in 1..NumPools : list_of_pools'[i] = << >>
          /\ DrainTurns(p) =>
                /\ avg' = avg /\ maxSize' = maxSize /\ held' = held
                /\ \A q \in Holding : bufs'[held[q]] = bufs[held[q]]]_vars

\* a Drain has returned, overlapped by no Put, in a pool whose estimator a
\* kept buffer has moved, while a caller holds a buffer
C8_Witness ==
    \E p \in Procs :
        /\ pc[p] \in DrainDone /\ ~drainSawPut[p]
        /\ avg.Current >= 1
        /\ Holding # {}

\* C9: after Init with argument h >= 1, Put rejects no buffer of capacity at
\* most h for being too large.
C9_CeilingCoversHint ==
    \A p \in Callers :
        (calls = 1 /\ pc[p] = "PutRet" /\ bufs[held[p]].cap <= hint)
            => bufs[held[p]].cap <= maxSize

\* C10: once Close has returned (it has stopped the ticker and set
\* tp.drainTicker to nil), the maintenance goroutine makes no turn of Drain
\* and no change of maxSize.
C10_CloseStopsMaintenance ==
    [][(drainTicker = "nil" /\ pc[Maint] \in {"Drain", "MaintSet"})
          => (pc'[Maint] = pc[Maint] /\ o'[Maint] = o[Maint])]_vars

\* C16 as stated: every buffer resident in bucket i has capacity exactly 2^i.
C16_ExactPower ==
    \A i \in 0..(NumPools - 1) : \A b \in Resident(i) : bufs[b].cap = 2 ^ i

\* C16 as amended: every buffer resident in bucket i has a capacity c with
\* 2^i <= c < 2^(i+1), that is i = floor(log2(c)); this includes the buffers
\* that Write has grown while a caller held them.
C16_BucketRange ==
    \A i \in 0..(NumPools - 1) : \A b \in Resident(i) :
        2 ^ i <= bufs[b].cap /\ bufs[b].cap < 2 ^ (i + 1)

\* a bucket holds a buffer whose capacity is not a power of two
C16_Witness ==
    \E i \in 0..(NumPools - 1) : \E b \in Resident(i) : bufs[b].cap > 2 ^ i

\* the pool admits no buffer and no tick will change that: the ceiling is 0,
\* the estimator gives a ceiling of 0, no Put is past its test and the
\* goroutine, which runs, carries no other value for maxSize
Stuck ==
    /\ maxSize = 0 /\ UpperBound(avg) = 0
    /\ \A p \in Callers : pc[p] # "PutUpdate"
    /\ pc[Maint] # "off"
    /\ pc[Maint] = "MaintSet" => maintArg = 0

\* from a stuck state only UpdateMaxSize called from outside leads out
StuckIsAbsorbing ==
    [][(Stuck /\ ~(\E p \in Admins, x \in NewMaxSizes : UpdateMaxSize(p, x)))
          => Stuck']_vars

\* C20: with periodic maintenance the ceiling keeps tracking the workload: no
\* tick takes a pool that admits buffers into a state from which every later
\* Put is discarded.
C20_TickNeverSticks ==
    [][(pc[Maint] = "MaintSet" /\ pc'[Maint] # "MaintSet" /\ maxSize >= 1)
          => ~Stuck']_vars

\* the buffer before the last call, and whether that call ended well
Before == last.before
Succeeded == last.err = "nil"
InOrder(b) == 0 <= b.off /\ b.off <= b.len /\ b.len <= BufCap(b)

C14_SucceedsWithinCap ==
    last.op = "Truncate" =>
        (Succeeded <=> (last.n >= 0 /\ Before.off + last.n <= BufCap(Before)))

\* C14 as amended: Truncate(n) succeeds exactly when 0 <= n <= len(Buf) and
\* off + n <= cap(Buf); it then leaves Len() = n, with off set to 0 when
\* n = 0 and unchanged otherwise.  In every other case it panics and leaves
\* Buf and off unchanged.
C14_Truncate ==
    last.op = "Truncate" =>
        LET n  == last.n
            ok == /\ 0 <= n /\ n <= Before.len
                  /\ Before.off + n <= BufCap(Before)
        IN  /\ Succeeded <=> ok
            /\ ok => /\ BufLen(buf) = n
                     /\ buf.off = IF n = 0 THEN 0 ELSE Before.off
                     /\ buf.arr = Before.arr
            /\ ~ok => buf = Before

\* a Truncate has refused an n that is above len(Buf) though off + n is
\* within the capacity
C14_Witness ==
    /\ last.op = "Truncate" /\ ~Succeeded
    /\ last.n > Before.len /\ Before.off + last.n <= BufCap(Before)

\* C15: 0 <= off <= len(Buf) <= cap(Buf) in every state a Buffer reaches by
\* NewBuffer, Write, WriteTo, Truncate, Reset, Put and Get; and after Reset
\* off = 0 and Len() = 0.
C15_CursorsInOrder ==
    /\ InOrder(buf)
    /\ last.op = "Reset" => buf.off = 0 /\ BufLen(buf) = 0

\* a Reset has emptied a buffer that held valid bytes behind consumed ones
C15_Witness ==
    /\ last.op = "Reset" /\ Before.off >= 1 /\ BufLen(Before) >= 1

\* C11: while a lone caller repeats Get, writes, Put of the same buffer,
\* Entries() never exceeds the number of distinct buckets that its Gets and
\* Puts have indexed.
C11_EntriesWithinTouched == Entries <= Cardinality(touched)

\* a call on pool t: Init, Put or a tick of its maintenance
CallOn(t) ==
    \/ \E h \in 1..MaxHint : InitOn(t, h)
    \/ \E c \in 0..MaxCap, v \in 0..MaxCap : PutOn(t, c, v)
    \/ TickOn(t)
\* what a Get of pool u reads to choose a size, and the bounds between which
\* a Put of pool u keeps a buffer
SizeFor(u) == GetSize(avg)
BoundsFor(u) == << LowerBound(avg), tps[u].maxSize >>

\* C19: two pools are independent: an Init, a Put or a tick on one pool never
\* changes the estimate the Get of the other pool uses, nor the bounds its
\* Put uses.
C19_PoolsIndependent ==
    [][\A t, u \in Pools :
          (t # u /\ tps[u].made /\ CallOn(t))
              => (SizeFor(u)' = SizeFor(u) /\ BoundsFor(u)' = BoundsFor(u))]_vars

\* the steps in which the goroutine p reads tp.maxSize: the test of Put
\* (line 60) and the test of Get (line 93)
ReadsMaxSize(p) ==
    \/ \E c \in 0..MaxCap : \E v \in {0, c} : PutReads(p, c, v)
    \/ GetReads(p)

\* the goroutine that reads tp.maxSize holds tp.Mutex
ReadsUnderLock == [][\A p \in Procs : ReadsMaxSize(p) => tpMutex = p]_vars

\* the goroutine that writes tp.maxSize holds tp.Mutex
WritesUnderLock == [][\A p \in Procs : UpdateWrites(p) => tpMutex = p]_vars

\* no goroutine reads tp.maxSize while another stands at the write of line 152
NoReadDuringWrite ==
    [][\A p \in Procs : ReadsMaxSize(p) =>
            \A q \in Procs : pc[q] # "UpdateWrite"]_vars

\* a goroutine that has called UpdateMaxSize finds tp.Mutex installed
LockInstalledFirst ==
    \A p \in Procs : pc[p] = "UpdateLock" => tpMutex # "nil"

\* C17: every read and every write of maxSize happens while the pool-level
\* lock is held: no Get or Put reads maxSize while UpdateMaxSize is writing
\* it, and UpdateMaxSize is never invoked before Init has installed the
\* pool-level lock.
C17_MaxSizeUnderLock ==
    /\ ReadsUnderLock
    /\ WritesUnderLock
    /\ NoReadDuringWrite
    /\ []LockInstalledFirst

\* the locks the goroutine p holds: bucket mutexes by index, tp.Mutex as -1
LocksHeld(p) ==
    { i \in 0..(Len(mu) - 1) : mu[i + 1] = p }
        \cup (IF tpMutex = p THEN {-1} ELSE {})

\* no goroutine holds more than one lock at a time
AtMostOneLock == \A p \in Procs : Cardinality(LocksHeld(p)) <= 1

\* the goroutine p is inside Get, Put, Drain, Entries, UpdateMaxSize or Close
InCall(p) == pc[p] \notin {"idle", "off", "start", "wait"}

\* a goroutine that waits for a lock waits for one that another goroutine
\* holds inside a call of its own
WaitsOnHolder ==
    \A p \in Procs :
        /\ pc[p] \in {"PutLock", "GetLock", "DrainLock", "EntriesLock"}
              /\ mu[o[p] + 1] # "free" => InCall(mu[o[p] + 1])
        /\ pc[p] = "UpdateLock" /\ tpMutex \notin {"nil", "free"}
              => InCall(tpMutex)

\* C18: no process ever holds more than one lock at a time, and under weak
\* fairness every started Get, Put, Drain, Entries and UpdateMaxSize
\* eventually completes: no interleaving of these operations deadlocks.
C18_EveryCallCompletes ==
    /\ []AtMostOneLock
    /\ \A p \in Procs : InCall(p) ~> ~InCall(p)

====
